---- MODULE Spec2Model ----
(***************************************************************************)
(* The favicon route of busyhe/m-nav, apps/web/app/favicon/[domain]/route.ts *)
(* in its two runtime variants: the nodejs handler, which keeps a Keyv     *)
(* result cache, and the edge handler, which has none.                     *)
(*                                                                         *)
(* Strings are sequences of one-character strings (a domain) or of tokens  *)
(* that the handler's string operations never cut through (an icon href).  *)
(* Each action is one resumption of the async handler: it starts where an  *)
(* awaited collaborator call settles and runs to the next await or return. *)
(***************************************************************************)
EXTENDS Integers, Sequences, FiniteSets, TLC

\* ------------------------------------------------------------------------
\* Characters and the domain strings requests are made with

LowerChars == {"a", "b", "c", "o"}

\* String.prototype.toUpperCase on one character (svg404, firstLetter).
ToUpper(c) ==
    CASE c = "a" -> "A"
      [] c = "b" -> "B"
      [] c = "c" -> "C"
      [] c = "o" -> "O"
      [] OTHER -> c

\* ASCII lower-casing done by the URL host parser.
ToLower(c) ==
    CASE c = "A" -> "a"
      [] c = "B" -> "b"
      [] OTHER -> c

\* domain.charAt(0): the empty string when the domain is empty.
CharAt0(s) == IF Len(s) = 0 THEN "" ELSE s[1]

\* svg404's firstLetter.
FirstLetter(domain) == ToUpper(CharAt0(domain))

\* Positions of s that hold a member of set cs.
PositionsOf(s, cs) == {i \in 1..Len(s) : s[i] \in cs}

SetMin(S) == CHOOSE x \in S : \A y \in S : x <= y

SetMax(S) == CHOOSE x \in S : \A y \in S : x >= y

\* The URL parser strips trailing spaces of its input.
RECURSIVE TrimRight(_)
TrimRight(s) ==
    IF Len(s) > 0 /\ s[Len(s)] = " " THEN TrimRight(SubSeq(s, 1, Len(s) - 1)) ELSE s

\* The authority of http://<domain>: up to the first path, query or fragment
\* delimiter.
Authority(s) ==
    LET cut == PositionsOf(s, {"/", "?", "#"})
    IN  IF cut = {} THEN s ELSE SubSeq(s, 1, SetMin(cut) - 1)

\* The authority without its userinfo: what follows the last "@".
HostPort(a) ==
    LET ats == PositionsOf(a, {"@"})
    IN  IF ats = {} THEN a ELSE SubSeq(a, SetMax(ats) + 1, Len(a))

\* Code points the host parser rejects, among the characters modelled.
ForbiddenHostChars == {" ", "^", "|", "<", ">"}

DigitChars == {"0", "1", "2", "3", "4", "5", "6", "7", "8", "9"}

\* new URL(`http://${domain}`): [ok |-> whether it parses, hostname |-> ...].
ParseURL(domain) ==
    LET hp     == HostPort(Authority(TrimRight(domain)))
        colons == PositionsOf(hp, {":"})
        host   == IF colons = {} THEN hp ELSE SubSeq(hp, 1, SetMin(colons) - 1)
        port   == IF colons = {} THEN <<>> ELSE SubSeq(hp, SetMin(colons) + 1, Len(hp))
        bad    == \/ Len(host) = 0
                  \/ PositionsOf(host, ForbiddenHostChars) # {}
                  \/ \E i \in 1..Len(port) : port[i] \notin DigitChars
    IN  [ok |-> ~bad, hostname |-> [i \in 1..Len(host) |-> ToLower(host[i])]]

\* ------------------------------------------------------------------------
\* Hostname validation: /([a-z0-9-]+\.)+[a-z0-9]{1,}$/.test(asciiDomain)

AlnumChars == LowerChars \cup DigitChars

LabelChars == AlnumChars \cup {"-"}

\* Positions right after one group [a-z0-9-]+\. that starts at position p.
GroupEnds(s, p) ==
    {q \in (p + 2)..(Len(s) + 1) :
        /\ s[q - 1] = "."
        /\ \A i \in p..(q - 2) : s[i] \in LabelChars}

\* Positions right after one or more consecutive groups that start at p.
RECURSIVE GroupsPlus(_, _)
GroupsPlus(s, p) ==
    LET one == GroupEnds(s, p)
    IN  one \cup UNION {GroupsPlus(s, q) : q \in one}

\* The pattern has no ^ anchor: a match may start at any position and must
\* end at the end of the string.
DomainRegexTest(s) ==
    \E p \in 1..Len(s) : \E q \in GroupsPlus(s, p) :
        /\ q <= Len(s)
        /\ \A i \in q..Len(s) : s[i] \in AlnumChars

\* ------------------------------------------------------------------------
\* Icon hrefs and the data-URI handling

\* 'A'..'Z', 'a'..'z', '0'..'9', '+', '/': the index of a character, minus
\* one, is its 6-bit value.
Base64Alphabet ==
    << "A", "B", "C", "D", "E", "F", "G", "H", "I", "J", "K", "L", "M",
       "N", "O", "P", "Q", "R", "S", "T", "U", "V", "W", "X", "Y", "Z",
       "a", "b", "c", "d", "e", "f", "g", "h", "i", "j", "k", "l", "m",
       "n", "o", "p", "q", "r", "s", "t", "u", "v", "w", "x", "y", "z",
       "0", "1", "2", "3", "4", "5", "6", "7", "8", "9", "+", "/" >>

IsBase64Char(c) == \E i \in 1..64 : Base64Alphabet[i] = c

Base64Value(c) == (CHOOSE i \in 1..64 : Base64Alphabet[i] = c) - 1

\* The bytes of a run of base64 characters: 4 characters give 3 bytes, a
\* trailing 3 give 2, a trailing 2 give 1, a trailing single one gives none.
RECURSIVE DecodeGroups(_)
DecodeGroups(s) ==
    IF Len(s) < 2 THEN <<>>
    ELSE LET v1 == Base64Value(s[1])
             v2 == Base64Value(s[2])
             b1 == (v1 * 4 + v2 \div 16) % 256
         IN  IF Len(s) = 2 THEN <<b1>>
             ELSE LET v3 == Base64Value(s[3])
                      b2 == ((v2 % 16) * 16 + v3 \div 4) % 256
                  IN  IF Len(s) = 3 THEN <<b1, b2>>
                      ELSE LET v4 == Base64Value(s[4])
                               b3 == ((v3 % 4) * 64 + v4) % 256
                           IN  <<b1, b2, b3>> \o DecodeGroups(SubSeq(s, 5, Len(s)))

\* Buffer.from(text, 'base64'): decoding stops at the first '=', characters
\* outside the alphabet are skipped.
BufferFromBase64(text) ==
    LET pads == PositionsOf(text, {"="})
        body == IF pads = {} THEN text ELSE SubSeq(text, 1, SetMin(pads) - 1)
    IN  DecodeGroups(SelectSeq(body, IsBase64Char))

\* Tokens that begin with the characters "image".
ImageTokens == {"image/png", "image/svg+xml"}

\* Positions where the text "data:image" starts.
DataImageAt(href) ==
    {i \in 1..(Len(href) - 1) : href[i] = "data:" /\ href[i + 1] \in ImageTokens}

\* selectedIcon.href.includes('data:image')
IncludesDataImage(href) == DataImageAt(href) # {}

\* href.split(','): the segments between the commas.
RECURSIVE SplitComma(_)
SplitComma(href) ==
    LET commas == PositionsOf(href, {","})
    IN  IF commas = {} THEN <<href>>
        ELSE <<SubSeq(href, 1, SetMin(commas) - 1)>>
                 \o SplitComma(SubSeq(href, SetMin(commas) + 1, Len(href)))

\* selectedIcon.href.split(',')[1]; an undefined or empty segment is falsy,
\* both are the empty sequence here.
Base64Data(href) ==
    LET parts == SplitComma(href)
    IN  IF Len(parts) >= 2 THEN parts[2] ELSE <<>>

\* href.replace(/data:(image.*?);.*/, '$1'): the leftmost match, the lazy
\* group up to the first ';' that follows, the rest of the text consumed;
\* the text is returned unchanged when nothing matches.
DataContentType(href) ==
    LET starts == {i \in DataImageAt(href) :
                      \E j \in (i + 2)..Len(href) : href[j] = ";"}
    IN  IF starts = {} THEN href
        ELSE LET i == SetMin(starts)
                 j == SetMin({k \in (i + 2)..Len(href) : href[k] = ";"})
             IN  SubSeq(href, 1, i - 1) \o SubSeq(href, i + 1, j - 1)

\* The hrefs the discovery collaborator is taken to return.
HrefPngBase64 == <<"data:", "image/png", ";", "base64", ",", "Q", "U", "I", "=">>

HrefSvgPlain == <<"data:", "image/svg+xml", ",", "P", "H", "N", "2">>

HrefSvgComma == <<"data:", "image/svg+xml", ";", "utf8", ",", "Q", "U", ",", "J", "D">>

HrefEmptyData == <<"data:", "image/png", ";", "base64", ",">>

HrefRemote == <<"https://", "cdn.a.co", "/favicon.ico">>

HrefRemote2 == <<"https://", "cdn.a.co", "/icon.png">>

\* ------------------------------------------------------------------------
\* Bounds and the inputs of the environment

\* Requests received in one run.
MaxRequests == 3

\* Handler invocations that may be in flight at once.
Reqs == {"r1", "r2"}

\* The {domain} path parameter, as the framework hands it over (URL-decoded).
Domains ==
    { <<"a", ".", "c", "o">>,
      <<"A", ".", "c", "o">>,
      <<"a", "b">>,
      <<"-", ".", "-">>,
      <<"a", " ", "b", ".", "c", "o">>,
      <<"b", " ", "a">> }

\* data.icons as getFavicons resolves it; only href is read by the handler.
IconLists ==
    { <<>>,
      <<HrefRemote, HrefPngBase64>>,
      <<HrefPngBase64, HrefRemote2>>,
      <<HrefSvgPlain>>,
      <<HrefSvgComma>>,
      <<HrefEmptyData>> }

\* A response body of raw bytes; kind is "svg" for the generated placeholder
\* (text holds its letter) and "text" for a plain-text body.
Bytes(b) == [kind |-> "bytes", bytes |-> b, text |-> ""]

\* What fetch(selectedIcon.href) resolves to: ok, status, the Content-Type
\* header (the empty sequence when absent) and the body.
FetchResults ==
    { [ok |-> TRUE, status |-> 200, contentType |-> <<"image/x-icon">>, body |-> <<1, 2>>],
      [ok |-> TRUE, status |-> 200, contentType |-> <<>>, body |-> <<3>>],
      [ok |-> FALSE, status |-> 404, contentType |-> <<"text/html">>, body |-> <<9>>] }

\* A response: contentLength is -1 and xcache "" when the header is not set.
MkResponse(status, ctype, body, cc, clen, xcache) ==
    [status |-> status, contentType |-> ctype, body |-> body,
     cacheControl |-> cc, contentLength |-> clen, xcache |-> xcache]

\* What proxyFavicon resolves to.
ProxyResponses ==
    { MkResponse(200, <<"image/x-icon">>, Bytes(<<7>>), "public, max-age=3600", -1, ""),
      MkResponse(404, <<"image/svg+xml">>, [kind |-> "svg", bytes |-> <<>>, text |-> "?"],
                 "no-store", -1, "") }

\* request.headers of the request that invocation r handles.
RequestHeaders(r) ==
    IF r = "r1"
    THEN { [name |-> "host", value |-> "nav.example"],
           [name |-> "content-length", value |-> "0"],
           [name |-> "accept", value |-> "image/*"],
           [name |-> "cookie", value |-> "sid"] }
    ELSE { [name |-> "host", value |-> "nav.example"],
           [name |-> "user-agent", value |-> "curl"] }

\* 24 * 60 * 60 * 1000, the ttl handed to cache.set.
CacheTtlMs == 86400000

NoResponse == MkResponse(0, <<>>, Bytes(<<>>), "", -1, "")

\* ------------------------------------------------------------------------
\* State

VARIABLES
    runtime,   \* "nodejs" (the cache-backed handler) or "edge"
    cache,     \* the Keyv store: a set of [key, buffer, contentType, ttl]
    req,       \* per invocation: its position and its local variables
    served     \* requests received so far

vars == <<runtime, cache, req, served>>

IdleReq ==
    [pc |-> "idle", domain |-> <<>>, asciiDomain |-> <<>>, parsed |-> FALSE,
     cached |-> {}, discovered |-> <<>>, proxyDomain |-> <<>>, proxied |-> {},
     icons |-> <<>>, selectedIcon |-> <<>>, fetched |-> {},
     iconBuffer |-> <<>>, contentType |-> <<>>, calls |-> <<>>,
     requestHeaders |-> {}, headers |-> {}, sent |-> <<>>,
     outcome |-> "pending", response |-> NoResponse]

\* cache.get(key): the unexpired entry stored under key, if any.
CacheGet(key) == {e \in cache : e.key = key}

\* A cache.set that stores the bytes under the default content type.
CacheSetDropsType(key, buffer, ctype, ttl) ==
    {e \in cache : e.key # key}
        \cup {[key |-> key, buffer |-> buffer, contentType |-> <<"image/png">>, ttl |-> ttl]}

\* cache.set(key, {buffer, contentType}, ttl): one entry per key.
CacheSet(key, buffer, ctype, ttl) ==
    {e \in cache : e.key # key}
        \cup {[key |-> key, buffer |-> buffer, contentType |-> ctype, ttl |-> ttl]}

\* svg404(): the placeholder drawn with the first letter of the raw domain.
Svg404(domain) ==
    MkResponse(404, <<"image/svg+xml">>,
               [kind |-> "svg", bytes |-> <<>>, text |-> FirstLetter(domain)],
               "public, max-age=86400", -1, "")

\* A hit answered with the default content type instead of the cached one.
HitResponseDefaultType(entry) ==
    MkResponse(200, <<"image/png">>, Bytes(entry.buffer),
               "public, max-age=86400", Len(entry.buffer), "HIT")

\* The response of the cache hit.
HitResponse(entry) ==
    MkResponse(200, entry.contentType, Bytes(entry.buffer),
               "public, max-age=86400", Len(entry.buffer), "HIT")

\* A resolved-icon response whose body carries the count of requests served
\* so far after the icon's bytes.
IconResponseStamped(rt, buffer, ctype) ==
    MkResponse(200, ctype, Bytes(Append(buffer, served)), "public, max-age=86400",
               Len(buffer) + 1, IF rt = "nodejs" THEN "MISS" ELSE "")

\* A resolved-icon response that leaves Content-Length out.
IconResponseNoLength(rt, buffer, ctype) ==
    MkResponse(200, ctype, Bytes(buffer), "public, max-age=86400", -1,
               IF rt = "nodejs" THEN "MISS" ELSE "")

\* The 200 response of a resolved icon: X-Cache: MISS in the nodejs handler,
\* no X-Cache header in the edge handler.
IconResponse(rt, buffer, ctype) ==
    MkResponse(200, ctype, Bytes(buffer), "public, max-age=86400", Len(buffer),
               IF rt = "nodejs" THEN "MISS" ELSE "")

\* The catch block of the icon retrieval.
Error500 ==
    MkResponse(500, <<>>, [kind |-> "text", bytes |-> <<>>, text |-> "Failed to fetch the icon"],
               "", -1, "")

\* The handler returns resp.
Respond(q, resp) == [q EXCEPT !.pc = "done", !.outcome = "response", !.response = resp]

\* An exception leaves the handler.
Throw(q) == [q EXCEPT !.pc = "done", !.outcome = "threw"]

\* The handler awaits the named collaborator call.
Await(q, pc, call) == [q EXCEPT !.pc = pc, !.calls = Append(@, call)]

\* The handler awaits the named outbound call, to which it passes its
\* headers object.
AwaitWithHeaders(q, pc, call) == [Await(q, pc, call) EXCEPT !.sent = Append(@, q.headers)]

\* A Headers object is a set of [name, value]; names are kept in lower case.
LowerName(name) ==
    CASE name = "Content-Length" -> "content-length"
      [] name = "Host"           -> "host"
      [] OTHER                   -> name

\* new Headers(init): a copy of init.
NewHeaders(init) == {[name |-> LowerName(h.name), value |-> h.value] : h \in init}

\* A delete that compares the name as written.
HeadersDeleteAsWritten(h, name) == {x \in h : x.name # name}

\* headers.delete(name): the name is matched without regard to case.
HeadersDelete(h, name) == {x \in h : x.name # LowerName(name)}

\* The headers object built for the outbound calls.
OutboundHeaders(q) ==
    HeadersDelete(HeadersDelete(NewHeaders(q.requestHeaders), "host"), "Content-Length")

\* selectedIcon = icons[0], then the data-URI branch or the remote fetch.
\* icons is not empty here, so the !selectedIcon return is never taken.
RetrieveIcon(rt, q, icons) ==
    LET href == icons[1]
        q1   == [q EXCEPT !.icons = icons, !.selectedIcon = href]
    IN  IF IncludesDataImage(href) /\ Base64Data(href) # <<>>
        THEN LET buf == BufferFromBase64(Base64Data(href))
                 ct  == DataContentType(href)
                 q2  == [q1 EXCEPT !.iconBuffer = buf, !.contentType = ct]
             IN  IF rt = "nodejs" THEN Await(q2, "cacheSet", "cache.set")
                 ELSE Respond(q2, IconResponse(rt, buf, ct))
        ELSE AwaitWithHeaders(q1, "fetch", "fetch")

\* The domain check and the first discovery call.
Validate(q) ==
    IF ~DomainRegexTest(q.asciiDomain) THEN Respond(q, Svg404(q.domain))
    ELSE AwaitWithHeaders([q EXCEPT !.headers = OutboundHeaders(q)],
                          "discoverHttp", "getFavicons:http")

\* The hostname normalisation of the nodejs handler: the raw domain is kept
\* when the URL does not parse.
Hostname(domain) ==
    LET u == ParseURL(domain) IN IF u.ok THEN u.hostname ELSE domain

SetReq(r, q) == req' = [req EXCEPT ![r] = q]

\* ------------------------------------------------------------------------
\* Initial state and actions

Init ==
    /\ runtime \in {"nodejs", "edge"}
    /\ cache = {}
    /\ req = [r \in Reqs |-> IdleReq]
    /\ served = 0

\* A request for domain d arrives. The nodejs handler normalises the domain
\* and awaits cache.get; the edge handler has no try around new URL and no
\* cache, and goes on to the domain check.
Receive(r, d) ==
    /\ req[r].pc = "idle"
    /\ served < MaxRequests
    /\ served' = served + 1
    /\ LET u == ParseURL(d)
           q == [IdleReq EXCEPT !.domain = d, !.parsed = u.ok,
                                !.requestHeaders = RequestHeaders(r)]
       IN  IF runtime = "nodejs"
           THEN SetReq(r, Await([q EXCEPT !.asciiDomain = Hostname(d)],
                                "cacheGet", "cache.get"))
           ELSE IF ~u.ok THEN SetReq(r, Throw(q))
                ELSE SetReq(r, Validate([q EXCEPT !.asciiDomain = u.hostname]))
    /\ UNCHANGED <<runtime, cache>>

\* cache.get settles: a hit is answered at once, a miss goes on to the
\* domain check.
CacheGetReturns(r) ==
    /\ req[r].pc = "cacheGet"
    /\ LET cached == CacheGet(req[r].asciiDomain)
           q      == [req[r] EXCEPT !.cached = cached]
       IN  IF cached # {}
           THEN SetReq(r, Respond(q, HitResponse(CHOOSE e \in cached : TRUE)))
           ELSE SetReq(r, Validate(q))
    /\ UNCHANGED <<runtime, cache, served>>

\* An http attempt that is always followed by the attempt over https.
AfterHttpAlwaysUpgrades(rt, q, icons) ==
    AwaitWithHeaders(q, "discoverHttps", "getFavicons:https")

\* After a discovery attempt over http: retry over https when no icon was
\* found, otherwise retrieve the first icon.
AfterHttp(rt, q, icons) ==
    IF Len(icons) = 0 THEN AwaitWithHeaders(q, "discoverHttps", "getFavicons:https")
    ELSE RetrieveIcon(rt, q, icons)

\* After the attempt over https: hand over to proxyFavicon when there is
\* still no icon.
AfterHttps(rt, q, icons) ==
    IF Len(icons) = 0
    THEN Await([q EXCEPT !.proxyDomain = q.asciiDomain], "proxy", "proxyFavicon")
    ELSE RetrieveIcon(rt, q, icons)

\* How a getFavicons call settled, as the handler sees it: it threw, or
\* data.icons was empty, or it held icons.
Settled(q, how) == [q EXCEPT !.discovered = Append(@, how)]

Found(icons) == IF Len(icons) = 0 THEN "empty" ELSE "found"

\* The proxy's response rebuilt with the handler's own Cache-Control.
ProxyResultRewrapped(q, resp) ==
    Respond([q EXCEPT !.proxied = {resp}],
            [resp EXCEPT !.cacheControl = "public, max-age=86400"])

\* return proxyFavicon({ domain: asciiDomain })
ProxyResult(q, resp) == Respond([q EXCEPT !.proxied = {resp}], resp)

\* getFavicons({url: http://...}) resolves with data.icons = icons.
DiscoverHttpReturns(r, icons) ==
    /\ req[r].pc = "discoverHttp"
    /\ SetReq(r, AfterHttp(runtime, Settled(req[r], Found(icons)), icons))
    /\ UNCHANGED <<runtime, cache, served>>

\* getFavicons({url: http://...}) rejects: logged, icons stays empty.
DiscoverHttpRejects(r) ==
    /\ req[r].pc = "discoverHttp"
    /\ SetReq(r, AfterHttp(runtime, Settled(req[r], "rejected"), <<>>))
    /\ UNCHANGED <<runtime, cache, served>>

\* getFavicons({url: https://...}) resolves.
DiscoverHttpsReturns(r, icons) ==
    /\ req[r].pc = "discoverHttps"
    /\ SetReq(r, AfterHttps(runtime, Settled(req[r], Found(icons)), icons))
    /\ UNCHANGED <<runtime, cache, served>>

\* getFavicons({url: https://...}) rejects.
DiscoverHttpsRejects(r) ==
    /\ req[r].pc = "discoverHttps"
    /\ SetReq(r, AfterHttps(runtime, Settled(req[r], "rejected"), <<>>))
    /\ UNCHANGED <<runtime, cache, served>>

\* proxyFavicon resolves: its response is the handler's.
ProxyReturns(r, resp) ==
    /\ req[r].pc = "proxy"
    /\ SetReq(r, ProxyResult(req[r], resp))
    /\ UNCHANGED <<runtime, cache, served>>

\* A fetch whose status is never looked at: the upstream body is used
\* whatever iconResponse.ok says.
AfterFetchNoOkCheck(rt, q, res) ==
    LET ct == IF res.contentType = <<>> THEN <<"image/png">> ELSE res.contentType
        q2 == [q EXCEPT !.fetched = {res}, !.iconBuffer = res.body, !.contentType = ct]
    IN  IF rt = "nodejs" THEN Await(q2, "cacheSet", "cache.set")
        ELSE Respond(q2, IconResponse(rt, res.body, ct))

\* What follows a settled fetch of the icon.
AfterFetch(rt, q, res) ==
    LET q1 == [q EXCEPT !.fetched = {res}]
    IN  IF ~res.ok THEN Respond(q1, Svg404(q.domain))
        ELSE LET ct == IF res.contentType = <<>> THEN <<"image/png">> ELSE res.contentType
                 q2 == [q1 EXCEPT !.iconBuffer = res.body, !.contentType = ct]
             IN  IF rt = "nodejs" THEN Await(q2, "cacheSet", "cache.set")
                 ELSE Respond(q2, IconResponse(rt, res.body, ct))

\* A fetch step that stores the placeholder of a failed fetch in the cache.
FetchReturnsCachesPlaceholder(r, res) ==
    /\ req[r].pc = "fetch"
    /\ SetReq(r, AfterFetch(runtime, req[r], res))
    /\ cache' = IF res.ok \/ runtime # "nodejs" THEN cache
                ELSE CacheSet(req[r].asciiDomain, <<>>, <<"image/svg+xml">>, CacheTtlMs)
    /\ UNCHANGED <<runtime, served>>

\* fetch(selectedIcon.href) resolves.
FetchReturns(r, res) ==
    /\ req[r].pc = "fetch"
    /\ SetReq(r, AfterFetch(runtime, req[r], res))
    /\ UNCHANGED <<runtime, cache, served>>

\* A rejected fetch after which an empty icon is stored for the domain.
FetchRejectsCachesEmpty(r) ==
    /\ req[r].pc = "fetch"
    /\ SetReq(r, Respond(req[r], Error500))
    /\ cache' = IF runtime = "nodejs"
                THEN CacheSet(req[r].asciiDomain, <<>>, <<"image/png">>, CacheTtlMs)
                ELSE cache
    /\ UNCHANGED <<runtime, served>>

\* fetch(selectedIcon.href) rejects: the catch block answers 500.
FetchRejects(r) ==
    /\ req[r].pc = "fetch"
    /\ SetReq(r, Respond(req[r], Error500))
    /\ UNCHANGED <<runtime, cache, served>>

\* A cache.set that stores the entry under the raw domain of the request.
CacheSetReturnsRawKey(r) ==
    /\ req[r].pc = "cacheSet"
    /\ cache' = CacheSet(req[r].domain, req[r].iconBuffer, req[r].contentType,
                         CacheTtlMs)
    /\ SetReq(r, Respond(req[r], IconResponse(runtime, req[r].iconBuffer,
                                              req[r].contentType)))
    /\ UNCHANGED <<runtime, served>>

\* cache.set settles (nodejs): the entry is stored and the 200 is returned.
CacheSetReturns(r) ==
    /\ req[r].pc = "cacheSet"
    /\ cache' = CacheSet(req[r].asciiDomain, req[r].iconBuffer, req[r].contentType,
                         CacheTtlMs)
    /\ SetReq(r, Respond(req[r], IconResponse(runtime, req[r].iconBuffer,
                                              req[r].contentType)))
    /\ UNCHANGED <<runtime, served>>

\* The response (or the exception) has been handed to the framework; the
\* invocation is over.
Complete(r) ==
    /\ req[r].pc = "done"
    /\ SetReq(r, IdleReq)
    /\ UNCHANGED <<runtime, cache, served>>

\* The ttl of an entry runs out: Keyv no longer returns it.
Expire(e) ==
    /\ e \in cache
    /\ cache' = cache \ {e}
    /\ UNCHANGED <<runtime, req, served>>

\* Collaborator failures the in-memory Keyv store and a well-behaved proxy
\* do not produce.

\* cache.get rejects: the await is outside every try block.
CacheGetRejects(r) ==
    /\ req[r].pc = "cacheGet"
    /\ SetReq(r, Throw(req[r]))
    /\ UNCHANGED <<runtime, cache, served>>

\* cache.set rejects: the catch block answers 500; whether the store took
\* the entry before failing is not known.
CacheSetRejects(r) ==
    /\ req[r].pc = "cacheSet"
    /\ \/ cache' = cache
       \/ cache' = CacheSet(req[r].asciiDomain, req[r].iconBuffer, req[r].contentType,
                            CacheTtlMs)
    /\ SetReq(r, Respond(req[r], Error500))
    /\ UNCHANGED <<runtime, served>>

\* proxyFavicon rejects: the returned promise is not awaited inside a try.
ProxyRejects(r) ==
    /\ req[r].pc = "proxy"
    /\ SetReq(r, Throw(req[r]))
    /\ UNCHANGED <<runtime, cache, served>>

Next ==
    \/ \E r \in Reqs, d \in Domains : Receive(r, d)
    \/ \E r \in Reqs : CacheGetReturns(r)
    \/ \E r \in Reqs, icons \in IconLists : DiscoverHttpReturns(r, icons)
    \/ \E r \in Reqs : DiscoverHttpRejects(r)
    \/ \E r \in Reqs, icons \in IconLists : DiscoverHttpsReturns(r, icons)
    \/ \E r \in Reqs : DiscoverHttpsRejects(r)
    \/ \E r \in Reqs, resp \in ProxyResponses : ProxyReturns(r, resp)
    \/ \E r \in Reqs, res \in FetchResults : FetchReturns(r, res)
    \/ \E r \in Reqs : FetchRejects(r)
    \/ \E r \in Reqs : CacheSetReturns(r)
    \/ \E r \in Reqs : Complete(r)
    \/ \E e \in cache : Expire(e)

Faults ==
    \/ \E r \in Reqs : CacheGetRejects(r)
    \/ \E r \in Reqs : CacheSetRejects(r)
    \/ \E r \in Reqs : ProxyRejects(r)

NextFaulty == Next \/ Faults

Spec == Init /\ [][Next]_vars

\* The same handlers with collaborators that may fail at every call.
SpecFaulty == Init /\ [][NextFaulty]_vars

\* ------------------------------------------------------------------------
\* Properties

Done(r) == req[r].pc = "done"

\* The invocation ended by returning a response.
Answered(r) == Done(r) /\ req[r].outcome = "response"

\* The invocation has made the named collaborator call.
Made(r, call) == \E i \in 1..Len(req[r].calls) : req[r].calls[i] = call

OutboundCalls == {"getFavicons:http", "getFavicons:https", "proxyFavicon", "fetch"}

NoOutboundCall(r) == \A c \in OutboundCalls : ~Made(r, c)

\* C1: nodejs handler. When cache.get settles while the store holds an
\* entry under the normalised domain, the request is answered in that step
\* with status 200, the entry's bytes and content type and X-Cache: HIT, its
\* only collaborator call is that cache.get, and the store is not written.
C1_HitServedFromCache ==
    [][\A r \in Reqs :
          (/\ req[r].pc = "cacheGet"
           /\ req'[r] # req[r]
           /\ CacheGet(Hostname(req[r].domain)) # {})
          => \E e \in CacheGet(Hostname(req[r].domain)) :
                /\ req'[r].pc = "done"
                /\ req'[r].outcome = "response"
                /\ req'[r].response.status = 200
                /\ req'[r].response.body = Bytes(e.buffer)
                /\ req'[r].response.contentType = e.contentType
                /\ req'[r].response.contentLength = Len(e.buffer)
                /\ req'[r].response.xcache = "HIT"
                /\ req'[r].calls = <<"cache.get">>
                /\ cache' = cache]_vars

\* A request for "A.co" answered from the entry stored under "a.co" with a
\* content type other than the default.
C1_Witness ==
    \E r \in Reqs :
        /\ Answered(r)
        /\ req[r].domain = <<"A", ".", "c", "o">>
        /\ req[r].response.xcache = "HIT"
        /\ req[r].response.contentType = <<"image/x-icon">>

\* Both discovery attempts of the invocation ended without an icon.
BothDiscoveriesEmpty(r) ==
    /\ Len(req[r].discovered) = 2
    /\ \A i \in 1..2 : req[r].discovered[i] \in {"empty", "rejected"}

\* C4: when the http and then the https discovery both yield no icon (an
\* empty list or a rejection each), proxyFavicon is called with the
\* normalised domain and the handler's response is the very response the
\* proxy resolved to; no icon is fetched and the cache is not written.
C4_ProxyVerbatim ==
    \A r \in Reqs :
        BothDiscoveriesEmpty(r) =>
            /\ Made(r, "proxyFavicon")
            /\ req[r].proxyDomain = Hostname(req[r].domain)
            /\ ~Made(r, "fetch")
            /\ ~Made(r, "cache.set")
            /\ Answered(r) => req[r].proxied = {req[r].response}
            /\ Done(r) => req[r].outcome = "response"

\* A request answered by the proxy after a rejected http discovery and an
\* empty https discovery.
C4_Witness ==
    \E r \in Reqs :
        /\ Answered(r)
        /\ req[r].discovered = <<"rejected", "empty">>
        /\ req[r].response \in ProxyResponses
        /\ req[r].response.status = 200

\* C6: when the fetch of the selected icon resolves with a non-success
\* status, the response is the handler's own 404 placeholder (not the 500,
\* not the upstream body or type) and the invocation makes no cache.set.
C6_FetchFailurePlaceholder ==
    \A r \in Reqs :
        (Done(r) /\ \E res \in req[r].fetched : ~res.ok) =>
            /\ Answered(r)
            /\ req[r].response = Svg404(req[r].domain)
            /\ req[r].response.status = 404
            /\ req[r].response.body.kind = "svg"
            /\ ~Made(r, "cache.set")

\* A nodejs request whose icon fetch came back 404.
C6_Witness ==
    \E r \in Reqs :
        /\ runtime = "nodejs"
        /\ Answered(r)
        /\ \E res \in req[r].fetched : res.status = 404
        /\ req[r].response.status = 404

\* The response is the handler's own placeholder for the request's domain.
IsPlaceholder(r) == req[r].response = Svg404(req[r].domain)

\* C9: nodejs handler. A request answered with the 404 placeholder has made
\* no cache.set, and the step that answers it leaves the store as it was;
\* every entry that enters the store is written by a request that answers
\* 200 with X-Cache: MISS in that step, so a HIT is never a placeholder.
C9_PlaceholderNeverCached ==
    /\ [](\A r \in Reqs :
            /\ (Answered(r) /\ IsPlaceholder(r)) => ~Made(r, "cache.set")
            /\ (Answered(r) /\ req[r].response.xcache = "HIT") =>
                   /\ req[r].response.status = 200
                   /\ req[r].response.body.kind = "bytes"
                   /\ ~IsPlaceholder(r))
    /\ [][/\ \A r \in Reqs :
                (/\ req[r].pc # "done"
                 /\ req'[r].pc = "done"
                 /\ req'[r].response = Svg404(req'[r].domain)) => cache' = cache
          /\ \A e \in cache' \ cache : \E r \in Reqs :
                /\ req[r].pc = "cacheSet"
                /\ req'[r].pc = "done"
                /\ req'[r].response.status = 200
                /\ req'[r].response.xcache = "MISS"
                /\ req'[r].response.body = Bytes(e.buffer)
                /\ e.key = req[r].asciiDomain]_vars

\* A nodejs request answered with the placeholder after a failed icon fetch,
\* while another request has stored an entry for the same domain.
C9_Witness ==
    \E r \in Reqs :
        /\ runtime = "nodejs"
        /\ Answered(r)
        /\ IsPlaceholder(r)
        /\ Made(r, "fetch")
        /\ CacheGet(req[r].asciiDomain) # {}

\* The invocation resolved an icon and reached its cache.set.
Resolved(r) == Made(r, "cache.set")

\* Two invocations for the same normalised domain, both past the cache miss
\* and both resolving and writing.
Racing(r1, r2) ==
    /\ r1 # r2
    /\ Resolved(r1)
    /\ Resolved(r2)
    /\ req[r1].asciiDomain = req[r2].asciiDomain

\* The invocation returned what it resolved, and the entry now stored under
\* its key, if any, holds the same bytes and content type.
ConvergedOn(r) ==
    Answered(r) =>
        /\ req[r].response.body = Bytes(req[r].iconBuffer)
        /\ req[r].response.contentType = req[r].contentType
        /\ \A e \in CacheGet(req[r].asciiDomain) :
              e.buffer = req[r].iconBuffer /\ e.contentType = req[r].contentType

\* The claim as stated in C10: two interleaved requests for the same domain
\* that both resolve and write hold the same bytes and content type,
\* whatever the collaborators answered to each.
C10_Original ==
    \A r1, r2 \in Reqs :
        Racing(r1, r2) =>
            /\ req[r1].iconBuffer = req[r2].iconBuffer
            /\ req[r1].contentType = req[r2].contentType

\* The collaborators answered both invocations alike: the same first icon
\* and, where it was fetched, the same fetch result.
SameUpstream(r1, r2) ==
    /\ req[r1].selectedIcon = req[r2].selectedIcon
    /\ req[r1].fetched = req[r2].fetched

\* C10 (amended): two interleaved requests for the same domain that both
\* resolve and write, and to which discovery and fetch gave the same
\* answers, hold the same bytes and content type; once both have answered,
\* both responses carry that content and so does the entry stored under the
\* normalised domain.
C10_SameUpstreamConverges ==
    \A r1, r2 \in Reqs :
        (Racing(r1, r2) /\ SameUpstream(r1, r2)) =>
            /\ req[r1].iconBuffer = req[r2].iconBuffer
            /\ req[r1].contentType = req[r2].contentType
            /\ (Answered(r1) /\ Answered(r2)) => (ConvergedOn(r1) /\ ConvergedOn(r2))

\* Requests for "a.co" and "A.co" that both missed, both fetched the same
\* icon and both wrote; the entry is in the store.
C10_Witness ==
    \E r1, r2 \in Reqs :
        /\ Racing(r1, r2)
        /\ SameUpstream(r1, r2)
        /\ req[r1].domain # req[r2].domain
        /\ Answered(r1) /\ req[r1].response.xcache = "MISS"
        /\ Answered(r2) /\ req[r2].response.xcache = "MISS"
        /\ req[r1].response.contentType = <<"image/x-icon">>
        /\ CacheGet(req[r1].asciiDomain) # {}

\* The claim as stated in C2: a request whose normalised domain (the parsed
\* hostname, the raw string when parsing fails) does not pass the domain
\* check is answered with the 404 SVG placeholder that carries the upper-cased
\* first character of the raw domain, and makes no discovery, proxy or
\* fetch call.
C2_Original ==
    \A r \in Reqs :
        (Done(r) /\ ~DomainRegexTest(Hostname(req[r].domain))) =>
            /\ Answered(r)
            /\ req[r].response.status = 404
            /\ req[r].response.contentType = <<"image/svg+xml">>
            /\ req[r].response.body.kind = "svg"
            /\ req[r].response.body.text = ToUpper(req[r].domain[1])
            /\ NoOutboundCall(r)

\* The href is an inline data-URI.
IsDataUri(href) == Len(href) > 0 /\ href[1] = "data:"

\* What follows the first comma of the href.
AfterFirstComma(href) ==
    LET commas == PositionsOf(href, {","})
    IN  IF commas = {} THEN <<>> ELSE SubSeq(href, SetMin(commas) + 1, Len(href))

\* The media type a data-URI declares: what stands between "data:" and the
\* first ';' or ','.
DeclaredMediaType(href) ==
    LET stops == PositionsOf(href, {";", ","})
    IN  IF stops = {} THEN SubSeq(href, 2, Len(href))
        ELSE SubSeq(href, 2, SetMin(stops) - 1)

\* The selected icon is a data-URI that carries a payload.
InlineIcon(r) ==
    /\ IsDataUri(req[r].selectedIcon)
    /\ AfterFirstComma(req[r].selectedIcon) # <<>>

\* The claim as stated in C3: a request whose normalised domain passes the
\* domain check and for which a discovery attempt returned an icon is
\* answered 200 with the media type of the selected icon: the declared type
\* of a data-URI, otherwise the Content-Type of the fetched response,
\* image/png when that is absent.
C3_Original ==
    \A r \in Reqs :
        (/\ Done(r)
         /\ DomainRegexTest(Hostname(req[r].domain))
         /\ \E i \in 1..Len(req[r].discovered) : req[r].discovered[i] = "found") =>
            /\ Answered(r)
            /\ req[r].response.status = 200
            /\ IF InlineIcon(r)
               THEN req[r].response.contentType = DeclaredMediaType(req[r].selectedIcon)
               ELSE \E res \in req[r].fetched :
                       req[r].response.contentType =
                           (IF res.contentType = <<>> THEN <<"image/png">>
                            ELSE res.contentType)

\* The claim as stated in C5: for a selected data-URI with a payload, of
\* whatever shape, the response is 200, its body is the base64 decoding of
\* what follows the first comma and its Content-Type is the declared media
\* type; the nodejs handler hands the same bytes and type to cache.set.
C5_Original ==
    \A r \in Reqs :
        (Done(r) /\ InlineIcon(r)) =>
            /\ Answered(r)
            /\ req[r].response.status = 200
            /\ req[r].response.body =
                   Bytes(BufferFromBase64(AfterFirstComma(req[r].selectedIcon)))
            /\ req[r].response.contentType = DeclaredMediaType(req[r].selectedIcon)
            /\ runtime = "nodejs" =>
                   /\ Made(r, "cache.set")
                   /\ req[r].iconBuffer =
                          BufferFromBase64(AfterFirstComma(req[r].selectedIcon))
                   /\ req[r].contentType = DeclaredMediaType(req[r].selectedIcon)

\* The claim as stated in C7, for the nodejs handler with collaborators that
\* may reject at every call: no exception leaves the handler, and a 500 is
\* the plain-text 'Failed to fetch the icon' of a request that had reached
\* the icon fetch or the cache write.
C7_Original ==
    runtime = "nodejs" =>
        \A r \in Reqs :
            Done(r) =>
                /\ req[r].outcome = "response"
                /\ req[r].response.status = 500 =>
                       /\ req[r].response = Error500
                       /\ Made(r, "fetch") \/ Made(r, "cache.set")

\* The raw domain is malformed: http://<domain> does not parse, or its
\* hostname does not pass the domain check.
Malformed(domain) ==
    \/ ~ParseURL(domain).ok
    \/ ~DomainRegexTest(ParseURL(domain).hostname)

\* The claim as stated in C8, for both handlers: a malformed domain makes no
\* outbound call and ends in the 404 placeholder, never in an exception;
\* when the URL does not parse the raw string is the normalised domain.
C8_Original ==
    \A r \in Reqs :
        (req[r].pc # "idle" /\ Malformed(req[r].domain)) =>
            /\ NoOutboundCall(r)
            /\ Done(r) => (Answered(r) /\ IsPlaceholder(r))
            /\ ~ParseURL(req[r].domain).ok => req[r].asciiDomain = req[r].domain

\* The edge handler run on the raw domain of invocation q and on the answers
\* the collaborators gave q: where it ends.
EdgeReplay(q) ==
    LET u  == ParseURL(q.domain)
        q0 == [IdleReq EXCEPT !.domain = q.domain, !.parsed = u.ok,
                              !.requestHeaders = q.requestHeaders]
        IconsOf(i) == IF q.discovered[i] = "found" THEN q.icons ELSE <<>>
        s1 == IF ~u.ok THEN Throw(q0)
              ELSE Validate([q0 EXCEPT !.asciiDomain = u.hostname])
        s2 == IF s1.pc = "discoverHttp" /\ Len(q.discovered) >= 1
              THEN AfterHttp("edge", Settled(s1, q.discovered[1]), IconsOf(1))
              ELSE s1
        s3 == IF s2.pc = "discoverHttps" /\ Len(q.discovered) >= 2
              THEN AfterHttps("edge", Settled(s2, q.discovered[2]), IconsOf(2))
              ELSE s2
    IN  IF s3.pc = "proxy" /\ q.proxied # {}
        THEN ProxyResult(s3, CHOOSE resp \in q.proxied : TRUE)
        ELSE IF s3.pc = "fetch" /\ q.fetched # {}
        THEN AfterFetch("edge", s3, CHOOSE res \in q.fetched : TRUE)
        ELSE IF s3.pc = "fetch" /\ q.pc = "done"
        THEN Respond(s3, Error500)
        ELSE s3

\* Two ends of a handler agree: both return a response with the same status,
\* body and Content-Type.
SameOutcome(q1, q2) ==
    /\ q1.pc = q2.pc
    /\ q1.outcome = "response"
    /\ q2.outcome = "response"
    /\ q1.response.status = q2.response.status
    /\ q1.response.body = q2.response.body
    /\ q1.response.contentType = q2.response.contentType

\* The claim as stated in C11: a nodejs request that found the cache empty
\* ends as the edge handler ends on the same raw domain and the same
\* collaborator answers: same status, same body, same Content-Type.
C11_Original ==
    runtime = "nodejs" =>
        \A r \in Reqs :
            (Done(r) /\ req[r].cached = {}) => SameOutcome(req[r], EdgeReplay(req[r]))

\* The same agreement for the raw domains that parse as a URL authority.
C11_ParsedDomainsAgree ==
    runtime = "nodejs" =>
        \A r \in Reqs :
            (Done(r) /\ req[r].cached = {} /\ req[r].parsed) =>
                SameOutcome(req[r], EdgeReplay(req[r]))

\* The headers the nodejs handler puts on a 200 response it builds.
OwnHeaders200(r) ==
    /\ req[r].response.cacheControl = "public, max-age=86400"
    /\ req[r].response.body.kind = "bytes"
    /\ req[r].response.contentLength = Len(req[r].response.body.bytes)
    /\ req[r].response.xcache \in {"HIT", "MISS"}
    /\ req[r].response.xcache = "HIT" <=>
           \E e \in req[r].cached : /\ req[r].response.body = Bytes(e.buffer)
                                    /\ req[r].response.contentType = e.contentType
    /\ req[r].response.xcache = "MISS" <=>
           (Made(r, "cache.set") /\ (Made(r, "getFavicons:http")))

\* The claim as stated in C12: every 200 response of the nodejs handler
\* carries the handler's Cache-Control, the body's length and the X-Cache
\* marker.
C12_Original ==
    runtime = "nodejs" =>
        \A r \in Reqs : (Answered(r) /\ req[r].response.status = 200) => OwnHeaders200(r)

\* C12: nodejs handler. Every 200 response other than the one handed back
\* by proxyFavicon carries Cache-Control "public, max-age=86400", a
\* Content-Length equal to the number of bytes of the body and an X-Cache
\* marker that is HIT exactly when the body is the entry cache.get returned
\* and MISS exactly when this request resolved the icon and called
\* cache.set; and the step that returns a 200 MISS is the step in which the
\* awaited cache.set settles, the store then holding the response's bytes
\* and content type under the normalised domain with the 24-hour ttl.
C12_OwnResponseHeaders ==
    /\ [](runtime = "nodejs" =>
            \A r \in Reqs :
                (Answered(r) /\ req[r].response.status = 200 /\ ~Made(r, "proxyFavicon"))
                    => OwnHeaders200(r))
    /\ [][\A r \in Reqs :
            (/\ req[r].pc # "done"
             /\ req'[r].pc = "done"
             /\ req'[r].outcome = "response"
             /\ req'[r].response.xcache = "MISS")
            => /\ req[r].pc = "cacheSet"
               /\ req'[r].response.status = 200
               /\ [key |-> Hostname(req[r].domain),
                   buffer |-> req'[r].response.body.bytes,
                   contentType |-> req'[r].response.contentType,
                   ttl |-> CacheTtlMs] \in cache']_vars

\* A nodejs request answered 200 MISS with a fetched body of two bytes, and
\* the other answered 200 HIT.
C12_Witness ==
    /\ runtime = "nodejs"
    /\ \E r1, r2 \in Reqs :
        /\ Answered(r1)
        /\ req[r1].response.xcache = "MISS"
        /\ req[r1].response.contentLength = 2
        /\ req[r1].fetched # {}
        /\ Answered(r2)
        /\ req[r2].response.xcache = "HIT"
        /\ req[r2].response.status = 200

\* Upstream was the same for both invocations: every collaborator call of
\* the one was made by the other and settled in the same way with the same
\* content.
UpstreamUnchanged(r1, r2) ==
    /\ req[r1].calls = req[r2].calls
    /\ req[r1].discovered = req[r2].discovered
    /\ req[r1].icons = req[r2].icons
    /\ req[r1].proxied = req[r2].proxied
    /\ req[r1].fetched = req[r2].fetched

Rank(call) ==
    CASE call = "cache.get"         -> 1
      [] call = "getFavicons:http"  -> 2
      [] call = "getFavicons:https" -> 3
      [] call = "proxyFavicon"      -> 4
      [] call = "fetch"             -> 5
      [] call = "cache.set"         -> 6

\* The call the invocation is waiting for at each await.
AwaitedCall(pc) ==
    CASE pc = "cacheGet"      -> "cache.get"
      [] pc = "discoverHttp"  -> "getFavicons:http"
      [] pc = "discoverHttps" -> "getFavicons:https"
      [] pc = "proxy"         -> "proxyFavicon"
      [] pc = "fetch"         -> "fetch"
      [] pc = "cacheSet"      -> "cache.set"

Awaiting(r) == req[r].pc \notin {"idle", "done"}

\* C14: the collaborator calls of one request are made one after the other
\* in the order cache lookup, http discovery, https discovery, proxy
\* fallback, icon fetch, cache write; the request waits for the last call
\* it made and every earlier one has settled; the https discovery is made
\* only after the http discovery settled without an icon; when the http
\* discovery found an icon there is no https discovery and no proxy call;
\* the icon used is the first of the list that was found.
C14_StrictOrder ==
    \A r \in Reqs :
        LET q == req[r] IN
        /\ \A i, j \in 1..Len(q.calls) : i < j => Rank(q.calls[i]) < Rank(q.calls[j])
        /\ Awaiting(r) => q.calls[Len(q.calls)] = AwaitedCall(q.pc)
        /\ Len(q.discovered) =
              Cardinality({i \in 1..Len(q.calls) :
                              /\ q.calls[i] \in {"getFavicons:http", "getFavicons:https"}
                              /\ ~(Awaiting(r) /\ i = Len(q.calls))})
        /\ Made(r, "getFavicons:https") =>
              /\ Made(r, "getFavicons:http")
              /\ q.discovered[1] \in {"empty", "rejected"}
        /\ Made(r, "proxyFavicon") => BothDiscoveriesEmpty(r)
        /\ (Len(q.discovered) >= 1 /\ q.discovered[1] = "found") =>
              /\ ~Made(r, "getFavicons:https")
              /\ ~Made(r, "proxyFavicon")
        /\ (Made(r, "fetch") \/ Made(r, "cache.set")) =>
              /\ q.discovered[Len(q.discovered)] = "found"
              /\ q.icons # <<>>
              /\ q.selectedIcon = q.icons[1]

\* A nodejs request that fetched the first of two icons found over http and
\* wrote the cache, beside one that went through both discoveries to the
\* proxy.
C14_Witness ==
    \E r1, r2 \in Reqs :
        /\ Answered(r1)
        /\ req[r1].calls = <<"cache.get", "getFavicons:http", "fetch", "cache.set">>
        /\ Len(req[r1].icons) = 2
        /\ req[r1].selectedIcon = HrefRemote
        /\ Answered(r2)
        /\ req[r2].calls = <<"cache.get", "getFavicons:http", "getFavicons:https",
                             "proxyFavicon">>

\* The claim as stated in C15: a request whose selected icon is a data-URI
\* with nothing after the comma goes to the remote fetch and ends in the 404
\* placeholder or the 500 error, never in a 200, and makes no cache.set.
C15_Original ==
    \A r \in Reqs :
        (/\ Done(r)
         /\ IsDataUri(req[r].selectedIcon)
         /\ AfterFirstComma(req[r].selectedIcon) = <<>>) =>
            /\ Made(r, "fetch")
            /\ Answered(r)
            /\ req[r].response.status \in {404, 500}
            /\ req[r].response.status # 200
            /\ ~Made(r, "cache.set")

\* How often the invocation has made the named collaborator call.
Count(r, call) == Cardinality({i \in 1..Len(req[r].calls) : req[r].calls[i] = call})

\* No call is repeated, and a request never makes both a proxy call and an
\* icon fetch.
CallBudget(r) ==
    /\ \A call \in OutboundCalls \cup {"cache.get", "cache.set"} : Count(r, call) <= 1
    /\ ~(Made(r, "proxyFavicon") /\ Made(r, "fetch"))

\* The claim as stated in C16, for the nodejs handler whose collaborator
\* calls return or fail: a request that has ended has ended with a response,
\* and it made each call at most once and not both proxy call and icon fetch.
C16_Original ==
    runtime = "nodejs" =>
        \A r \in Reqs :
            /\ Done(r) => Answered(r)
            /\ CallBudget(r)

\* The whole string is one or more labels of [a-z0-9-]+, each followed by a
\* dot, and then a final run of one or more [a-z0-9].
WholeHostname(s) ==
    LET dots == PositionsOf(s, {"."})
    IN  /\ dots # {}
        /\ \A i \in 1..Len(s) : s[i] \in LabelChars \cup {"."}
        /\ s[1] # "."
        /\ \A i \in dots : i + 1 <= Len(s) /\ s[i + 1] # "."
        /\ \A i \in (SetMax(dots) + 1)..Len(s) : s[i] \in AlnumChars

\* The claim as stated in C17: the domain check accepts a normalised domain
\* only when the whole string has the hostname form, and a request whose
\* normalised domain does not have it makes no outbound call and ends in
\* the 404 placeholder.
C17_Original ==
    \A r \in Reqs :
        (req[r].pc # "idle" /\ req[r].outcome # "threw") =>
            /\ Made(r, "getFavicons:http") =>
                  (DomainRegexTest(req[r].asciiDomain) /\ WholeHostname(req[r].asciiDomain))
            /\ ~WholeHostname(req[r].asciiDomain) =>
                  /\ NoOutboundCall(r)
                  /\ Done(r) => (Answered(r) /\ IsPlaceholder(r))

\* The calls to which the handler passes its headers object.
HeaderedCalls == {"getFavicons:http", "getFavicons:https", "fetch"}

\* C18: every http discovery, https discovery and icon fetch of a request
\* is passed the same header set, the inbound request headers without
\* 'host' and 'content-length' and with every other header as it came; the
\* inbound request's headers stay as they arrived.
C18_OutboundHeaders ==
    \A r \in Reqs :
        req[r].pc # "idle" =>
            /\ req[r].requestHeaders = RequestHeaders(r)
            /\ Len(req[r].sent) =
                  Cardinality({i \in 1..Len(req[r].calls) : req[r].calls[i] \in HeaderedCalls})
            /\ \A i \in 1..Len(req[r].sent) :
                  /\ req[r].sent[i] =
                        {h \in RequestHeaders(r) : h.name \notin {"host", "content-length"}}
                  /\ req[r].sent[i] = req[r].sent[1]

\* A request that arrived with host, content-length, accept and cookie has
\* made both discoveries and the icon fetch, each with accept and cookie.
C18_Witness ==
    \E r \in Reqs :
        /\ Done(r)
        /\ [name |-> "content-length", value |-> "0"] \in req[r].requestHeaders
        /\ [name |-> "host", value |-> "nav.example"] \in req[r].requestHeaders
        /\ Len(req[r].sent) = 3
        /\ Made(r, "fetch")
        /\ req[r].sent[3] = { [name |-> "accept", value |-> "image/*"],
                              [name |-> "cookie", value |-> "sid"] }

\* Invocation r ends in this step.
Ends(r) == req[r].pc # "done" /\ req'[r].pc = "done"

OtherEntries(store, key) == {e \in store : e.key # key}

\* C20: nodejs handler. Every key in the store is the normalised form of a
\* requested domain and passes the handler's domain check, with one entry
\* per key; what a request got from cache.get lies under its normalised
\* domain; a request reaches cache.set only after its normalised domain
\* passed the domain check; no step of a request changes an entry held
\* under another key; and a request whose raw domain normalises to a key
\* that holds an entry is answered as a HIT from that entry.
C20_KeyDiscipline ==
    /\ [](/\ \A e \in cache :
                /\ DomainRegexTest(e.key)
                /\ \E d \in Domains : e.key = Hostname(d)
          /\ \A e1, e2 \in cache : e1.key = e2.key => e1 = e2
          /\ \A r \in Reqs :
                /\ \A e \in req[r].cached : e.key = Hostname(req[r].domain)
                /\ Made(r, "cache.set") =>
                      /\ DomainRegexTest(Hostname(req[r].domain))
                      /\ Made(r, "getFavicons:http"))
    /\ [][\A r \in Reqs :
            /\ req'[r] # req[r] =>
                  OtherEntries(cache', Hostname(req[r].domain))
                      = OtherEntries(cache, Hostname(req[r].domain))
            /\ (/\ req[r].pc = "cacheGet"
                /\ req'[r] # req[r]
                /\ \E e \in cache : e.key = Hostname(req[r].domain)) =>
                    /\ req'[r].response.xcache = "HIT"
                    /\ req'[r].cached = {e \in cache : e.key = Hostname(req[r].domain)}]_vars

\* A request for A.co answered as a HIT from the entry that a request for
\* a.co, answered 200 MISS, stored under a.co.
C20_Witness ==
    \E r1, r2 \in Reqs :
        /\ Answered(r1)
        /\ req[r1].domain = <<"a", ".", "c", "o">>
        /\ req[r1].response.xcache = "MISS"
        /\ Answered(r2)
        /\ req[r2].domain = <<"A", ".", "c", "o">>
        /\ req[r2].response.xcache = "HIT"
        /\ req[r2].response.body = req[r1].response.body
        /\ \A e \in cache : e.key = <<"a", ".", "c", "o">>
        /\ cache # {}

====
